---- MODULE Spec2Model ----
(***************************************************************************)
(* Baloo lookup argument prototype (plonkish_backend/src/backend/baloo.rs  *)
(* and plonkish_backend/src/pcs.rs).                                       *)
(*                                                                         *)
(* Field elements are integers modulo P.  The source works over the BN254  *)
(* scalar field Fr; the model keeps the code's arithmetic but over a small *)
(* prime field that still has the 2-, 4- and 8-th roots of unity the code  *)
(* uses.  A polynomial is the sequence of its coefficients, lowest degree  *)
(* first, without trailing zeros (the zero polynomial is << >>).           *)
(***************************************************************************)
EXTENDS Integers, Sequences, FiniteSets, TLC

\* ------------------------------------------------------------------------
\* Field arithmetic (halo2_curves::bn256::Fr, scaled down)
\* ------------------------------------------------------------------------
P == 97

Fr == 0 .. (P - 1)

FAdd(a, b) == (a + b) % P

FSub(a, b) == (a - b + P) % P

FNeg(a) == (P - a) % P

FMul(a, b) == (a * b) % P

RECURSIVE FPow(_, _)
FPow(a, n) ==
    IF n = 0 THEN 1
    ELSE IF n % 2 = 0 THEN FPow(FMul(a, a), n \div 2)
    ELSE FMul(a, FPow(FMul(a, a), n \div 2))

\* Field::invert: None on zero (callers unwrap it), a^(P-2) otherwise
InvertIsNone(a) == a % P = 0

FInv(a) == FPow(a, P - 2)

\* util::arithmetic::root_of_unity: a primitive n-th root of unity
root_of_unity(n) ==
    CHOOSE w \in 1 .. (P - 1) :
        /\ FPow(w, n) = 1
        /\ \A d \in 1 .. (n - 1) : FPow(w, d) # 1

\* ------------------------------------------------------------------------
\* UnivariatePolynomial (poly::univariate), coefficient form
\* ------------------------------------------------------------------------
RECURSIVE truncate_leading_zeros(_)
truncate_leading_zeros(c) ==
    IF c = << >> THEN << >>
    ELSE IF c[Len(c)] = 0 THEN truncate_leading_zeros(SubSeq(c, 1, Len(c) - 1))
    ELSE c

monomial(coeffs) == truncate_leading_zeros([i \in 1 .. Len(coeffs) |-> coeffs[i] % P])

zero_poly == monomial(<<0>>)

\* degree, with -1 for the zero polynomial
Degree(p) == Len(p) - 1

Coeff(p, i) == IF i <= Len(p) THEN p[i] ELSE 0

Max(a, b) == IF a >= b THEN a ELSE b

\* Add / AddAssign of two polynomials
poly_add(a, b) ==
    truncate_leading_zeros([i \in 1 .. Max(Len(a), Len(b)) |-> FAdd(Coeff(a, i), Coeff(b, i))])

\* Mul<F>: polynomial times scalar
poly_scale(a, s) == truncate_leading_zeros([i \in 1 .. Len(a) |-> FMul(a[i], s)])

\* Add<F>: polynomial plus scalar (added to the constant coefficient)
poly_add_scalar(a, s) == poly_add(a, monomial(<<s>>))

\* a * X^n
poly_shift(a, n) ==
    IF a = << >> THEN << >>
    ELSE [i \in 1 .. (Len(a) + n) |-> IF i <= n THEN 0 ELSE a[i - n]]

RECURSIVE poly_mul(_, _)
poly_mul(a, b) ==
    IF b = << >> THEN << >>
    ELSE poly_add(poly_scale(a, b[1]),
                  poly_shift(poly_mul(a, SubSeq(b, 2, Len(b))), 1))

\* Horner evaluation
RECURSIVE evaluate(_, _)
evaluate(p, x) ==
    IF p = << >> THEN 0
    ELSE FAdd(p[1], FMul(x, evaluate(SubSeq(p, 2, Len(p)), x)))

\* long division: the pair (quotient, remainder), divisor nonzero
RECURSIVE div_rem_loop(_, _, _)
div_rem_loop(q, r, b) ==
    IF Len(r) < Len(b) THEN [q |-> q, r |-> r]
    ELSE LET c == FMul(r[Len(r)], FInv(b[Len(b)]))
             t == poly_shift(<<c>>, Len(r) - Len(b))
         IN  div_rem_loop(poly_add(q, t),
                          poly_add(r, poly_scale(poly_mul(b, t), P - 1)),
                          b)

div_rem(a, b) == div_rem_loop(<< >>, a, b)

\* scalar * prod (X - point)
RECURSIVE vanishing(_, _)
vanishing(points, scalar) ==
    IF points = << >> THEN monomial(<<scalar>>)
    ELSE poly_mul(vanishing(SubSeq(points, 2, Len(points)), scalar),
                  monomial(<<FNeg(points[1]), 1>>))

\* lagrange(values).ifft(): the polynomial of degree < n taking values[i+1]
\* at root_of_unity(n)^i
ifft(values) ==
    LET n    == Len(values)
        w    == root_of_unity(n)
        winv == FInv(w)
        ninv == FInv(n % P)
        SumTo[j \in 0 .. (n - 1), i \in 0 .. n] ==
            IF i = 0 THEN 0
            ELSE FAdd(SumTo[j, i - 1],
                      FMul(values[i], FPow(winv, (i - 1) * j)))
    IN  truncate_leading_zeros([j \in 1 .. n |-> FMul(ninv, SumTo[j - 1, n])])

\* ------------------------------------------------------------------------
\* lagrange_interp (baloo.rs)
\* ------------------------------------------------------------------------
\* variant of bary_centric_weight that multiplies by h_i - h_j without
\* inverting it
RECURSIVE bary_centric_weight_no_invert(_, _, _)
bary_centric_weight_no_invert(h, idx, jdx) ==
    IF jdx > Len(h) THEN 1
    ELSE IF jdx = idx THEN bary_centric_weight_no_invert(h, idx, jdx + 1)
    ELSE FMul(FSub(h[idx], h[jdx]), bary_centric_weight_no_invert(h, idx, jdx + 1))

\* the weight of point idx after the inner loop; every factor is inverted
\* and unwrapped, which panics when two points coincide
RECURSIVE bary_centric_weight(_, _, _)
bary_centric_weight(h, idx, jdx) ==
    IF jdx > Len(h) THEN 1
    ELSE IF jdx = idx THEN bary_centric_weight(h, idx, jdx + 1)
    ELSE FMul(FInv(FSub(h[idx], h[jdx])), bary_centric_weight(h, idx, jdx + 1))

lagrange_interp_panics(h) ==
    \E idx, jdx \in 1 .. Len(h) : jdx # idx /\ InvertIsNone(FSub(h[idx], h[jdx]))

RECURSIVE lagrange_interp_sum(_, _, _)
lagrange_interp_sum(h, y, idx) ==
    IF idx = 0 THEN zero_poly
    ELSE LET vanishing_poly == vanishing(h, 1)
             v_poly         == monomial(<<FNeg(h[idx]), 1>>)
             v_poly_inv     == div_rem(vanishing_poly, v_poly).q
             accu           == poly_scale(v_poly_inv,
                                   FMul(y[idx], bary_centric_weight(h, idx, 1)))
         IN  poly_add(lagrange_interp_sum(h, y, idx - 1), accu)

lagrange_interp(h_i_values, t_values_from_lookup) ==
    lagrange_interp_sum(h_i_values, t_values_from_lookup, Len(h_i_values))

\* ------------------------------------------------------------------------
\* Transcript (util::transcript, Keccak256Transcript) and the KZG scheme
\* (pcs::univariate::UnivariateKzg)
\* ------------------------------------------------------------------------
\* sponge digest of the absorbed data
RECURSIVE Keccak(_)
Keccak(state) ==
    IF state = << >> THEN 1
    ELSE FAdd(FMul(Keccak(SubSeq(state, 1, Len(state) - 1)), 31),
              FAdd(state[Len(state)], 7))

\* T::new(()): nothing written, nothing absorbed
new_transcript == [stream |-> << >>, state |-> << >>]

\* TranscriptWrite::write_commitment / write_field_element
write_commitment(transcript, comm) ==
    [stream |-> Append(transcript.stream, comm),
     state  |-> Append(transcript.state, comm)]

write_field_element(transcript, fe) == write_commitment(transcript, fe)

\* squeeze_point / squeeze_challenge: the challenge and the advanced state
squeeze_point(transcript) ==
    [point      |-> Keccak(transcript.state),
     transcript |-> [transcript EXCEPT !.state = Append(@, Keccak(transcript.state))]]

\* T::from_proof((), proof): the proof as unread stream, nothing absorbed
from_proof(proof) == [stream |-> proof, state |-> << >>]

\* TranscriptRead::read_commitment / read_field_element: the next item of
\* the stream, absorbed as it is read
read_commitment(transcript) ==
    [value      |-> Head(transcript.stream),
     transcript |-> [stream |-> Tail(transcript.stream),
                     state  |-> Append(transcript.state, Head(transcript.stream))]]

read_field_element(transcript) == read_commitment(transcript)

\* Pcs::commit: the KZG commitment [poly(tau)], a group element written as
\* its discrete logarithm
commit(pp, poly) == evaluate(poly, pp)

\* Pcs::commit_monomial_g2, in the paired group
commit_monomial_g2(param, coeffs) == evaluate(monomial(coeffs), param)

\* pcs.rs commit_and_write with both `?`: commit_ok and write_ok are the
\* outcomes of Self::commit and of transcript.write_commitment; a failing
\* write leaves the transcript as it was
commit_and_write_result(pp, poly, transcript, commit_ok, write_ok) ==
    IF ~commit_ok
    THEN [ok |-> FALSE, err |-> "commit", comms |-> << >>, transcript |-> transcript]
    ELSE IF ~write_ok
    THEN [ok |-> FALSE, err |-> "write", comms |-> << >>, transcript |-> transcript]
    ELSE [ok |-> TRUE, err |-> "", comms |-> <<commit(pp, poly)>>,
          transcript |-> write_commitment(transcript, commit(pp, poly))]

\* Pcs::batch_commit: one commitment per polynomial, in their order
batch_commit(pp, polys) == [i \in 1 .. Len(polys) |-> commit(pp, polys[i])]

\* variant of batch_write_loop that drops the result of a failing write and
\* goes on with the next commitment
RECURSIVE batch_write_loop_ignore_error(_, _, _, _)
batch_write_loop_ignore_error(comms, i, transcript, write_fail) ==
    IF i > Len(comms) THEN [ok |-> write_fail \notin 1 .. Len(comms),
                            transcript |-> transcript]
    ELSE IF i = write_fail
    THEN batch_write_loop_ignore_error(comms, i + 1, transcript, write_fail)
    ELSE batch_write_loop_ignore_error(comms, i + 1,
             write_commitment(transcript, comms[i]), write_fail)

\* for comm in comms.iter() { transcript.write_commitment(comm)?; } from the
\* i-th commitment on; write_fail is the index of the write that returns an
\* error, 0 when none does
RECURSIVE batch_write_loop(_, _, _, _)
batch_write_loop(comms, i, transcript, write_fail) ==
    IF i > Len(comms) THEN [ok |-> TRUE, transcript |-> transcript]
    ELSE IF i = write_fail THEN [ok |-> FALSE, transcript |-> transcript]
    ELSE batch_write_loop(comms, i + 1,
             write_commitment(transcript, comms[i]), write_fail)

\* pcs.rs batch_commit_and_write
batch_commit_and_write_result(pp, polys, transcript, commit_ok, write_fail) ==
    IF ~commit_ok
    THEN [ok |-> FALSE, err |-> "commit", comms |-> << >>, transcript |-> transcript]
    ELSE LET comms == batch_commit(pp, polys)
             w     == batch_write_loop(comms, 1, transcript, write_fail)
         IN  IF w.ok
             THEN [ok |-> TRUE, err |-> "", comms |-> comms, transcript |-> w.transcript]
             ELSE [ok |-> FALSE, err |-> "write", comms |-> << >>,
                   transcript |-> w.transcript]

\* pcs.rs: commit, then append the commitment to the transcript; this is the
\* path on which commit and write_commitment both return Ok
commit_and_write(pp, poly, transcript) ==
    LET res == commit_and_write_result(pp, poly, transcript, TRUE, TRUE)
    IN  [comm |-> res.comms[1], transcript |-> res.transcript]

\* Pcs::open: commit to (poly - eval) / (X - point) and write it
open(pp, poly, comm, point, eval, transcript) ==
    LET quotient == div_rem(poly_add_scalar(poly, FNeg(eval)),
                            monomial(<<FNeg(point), 1>>)).q
    IN  write_commitment(transcript, commit(pp, quotient))

\* Pcs::verify: read the opening pi and check the pairing equation
\* e(pi, [tau - point]) = e(comm - [eval], [1])
verify(vp, comm, point, eval, transcript) ==
    LET pi == read_commitment(transcript).value
    IN  IF FMul(pi, FSub(vp, point)) = FSub(comm, eval)
        THEN "Ok" ELSE "Err(InvalidPcsOpening)"

\* ------------------------------------------------------------------------
\* Inputs
\* ------------------------------------------------------------------------
MaxVal == 3

MaxRuns == 2

Range(s) == {s[i] : i \in 1 .. Len(s)}

SeqsOfLen(S, n) == [1 .. n -> S]

Tables == {<<1, 1>>, <<3, 1, 3, 2>>, <<1, 2, 3, 4, 5, 6, 7, 8>>}

LookupLens == {2, 4}

Lookups ==
    UNION {SeqsOfLen(1 .. MaxVal, n) : n \in LookupLens} \cup {<<3, 7, 3, 4>>}

\* the toxic waste drawn by Pcs::setup
Secrets == {5}

\* ------------------------------------------------------------------------
\* tests::test_prover
\* ------------------------------------------------------------------------
VARIABLES pc, failure, table, lookup, param, transcript, phi_poly,
          t_values_from_lookup, i_values, h_i, t_i_poly, z_i_poly,
          z_i_comm_2, col_values, v_poly, alpha, beta, z_v_poly, d_poly,
          e_poly, q_d_poly, r_poly, q_e_poly, runs, first_run

proverVars == <<pc, failure, table, lookup, param, transcript, phi_poly,
                t_values_from_lookup, i_values, h_i, t_i_poly, z_i_poly,
                z_i_comm_2, col_values, v_poly, alpha, beta, z_v_poly, d_poly,
                e_poly, q_d_poly, r_poly, q_e_poly, runs, first_run>>

\* Iterator::position: 0-based index of the first match, -1 for None
position(s, x) ==
    IF x \in Range(s)
    THEN (CHOOSE i \in 1 .. Len(s) :
              s[i] = x /\ \A j \in 1 .. (i - 1) : s[j] # x) - 1
    ELSE -1

\* the orders in which a HashSet holding the values of s can iterate
HashSetOrders(s) ==
    LET S == Range(s)
    IN  {o \in [1 .. Cardinality(S) -> S] :
             \A a, b \in 1 .. Cardinality(S) : a # b => o[a] # o[b]}

\* I: for every element of the set, its index in the table
index_values(t_values, tbl) == [j \in 1 .. Len(t_values) |-> position(tbl, t_values[j])]

\* H_I: root_of_unity(m)^i for the indices i of I
h_i_values(i_vals, m) == [j \in 1 .. Len(i_vals) |-> FPow(root_of_unity(m), i_vals[j])]

\* variant of column_values that takes the position in the set iterated
\* backwards, an order other than the one I was built in
column_values_other_order(t_values, lkp) ==
    [i \in 1 .. Len(lkp) |-> Len(t_values) - 1 - position(t_values, lkp[i])]

\* col(i): position of lookup[i] in the set
column_values(t_values, lkp) == [i \in 1 .. Len(lkp) |-> position(t_values, lkp[i])]

\* v_values: the H_I root assigned to each lookup entry
v_values_of(h, col) == [i \in 1 .. Len(col) |-> h[col[i] + 1]]

Unset ==
    /\ failure = "none"
    /\ transcript = new_transcript
    /\ phi_poly = << >>
    /\ t_values_from_lookup = << >>
    /\ i_values = << >>
    /\ h_i = << >>
    /\ t_i_poly = << >>
    /\ z_i_poly = << >>
    /\ z_i_comm_2 = 0
    /\ col_values = << >>
    /\ v_poly = << >>
    /\ alpha = 0
    /\ beta = 0
    /\ z_v_poly = << >>
    /\ d_poly = << >>
    /\ e_poly = << >>
    /\ q_d_poly = << >>
    /\ r_poly = << >>
    /\ q_e_poly = << >>

ProverInit ==
    /\ pc = "start"
    /\ table \in Tables
    /\ lookup \in {l \in Lookups : Len(l) <= Len(table)}
    /\ param \in Secrets
    /\ runs = 1
    /\ first_run = << >>
    /\ Unset

ProverIdle ==
    /\ pc = "idle"
    /\ table = << >>
    /\ lookup = << >>
    /\ param = 0
    /\ runs = 0
    /\ first_run = << >>
    /\ Unset

\* ------------------------------------------------------------------------
\* round 2 polynomials of test_prover
\* ------------------------------------------------------------------------
\* vec![scalar_1], m - 1 zeros, vec![scalar_1]
z_v_values(m) == [i \in 1 .. (m + 1) |-> IF i = 1 \/ i = m + 1 THEN 1 ELSE 0]

\* v_root_of_unity.pow([i])
v_root(i, m) == FPow(root_of_unity(m), i)

\* mu_i(X) = z_v_poly.div_rem(X - v_root).0 * (v_root / m)
mu_poly(i, m, z_v) ==
    poly_scale(div_rem(z_v, monomial(<<FNeg(v_root(i, m)), 1>>)).q,
               FMul(v_root(i, m), FInv(m % P)))

\* z_i_poly.div_rem(X - col_i_root).0 * (-col_i_root / z_I(0))
normalized_lag_poly(col_i_root, z_i) ==
    poly_scale(div_rem(z_i, monomial(<<FNeg(col_i_root), 1>>)).q,
               FMul(FNeg(col_i_root), FInv(evaluate(z_i, 0))))

\* D(X) = sum_i mu_i(alpha) * normalized_lag_poly_i(X), the first n terms
RECURSIVE d_poly_sum(_, _, _, _, _, _, _)
d_poly_sum(n, m, col, h, z_i, z_v, a) ==
    IF n = 0 THEN zero_poly
    ELSE poly_add(d_poly_sum(n - 1, m, col, h, z_i, z_v, a),
                  poly_scale(normalized_lag_poly(h[col[n] + 1], z_i),
                             evaluate(mu_poly(n - 1, m, z_v), a)))

\* E(X) = sum_i mu_i(X) * normalized_lag_poly_i(beta), the first n terms
RECURSIVE e_poly_sum(_, _, _, _, _, _, _)
e_poly_sum(n, m, col, h, z_i, z_v, b) ==
    IF n = 0 THEN zero_poly
    ELSE poly_add(e_poly_sum(n - 1, m, col, h, z_i, z_v, b),
                  poly_scale(mu_poly(n - 1, m, z_v),
                             evaluate(normalized_lag_poly(h[col[n] + 1], z_i), b)))

\* variant of q_d_r_polys that adds phi(alpha) instead of subtracting it
q_d_r_polys_plus_phi(d, t_i, phi, z_i, a) ==
    div_rem(poly_add_scalar(poly_mul(d, t_i), evaluate(phi, a)), z_i)

\* (d_t_poly + phi_poly_at_alpha.neg()).div_rem(&z_i_poly)
q_d_r_polys(d, t_i, phi, z_i, a) ==
    div_rem(poly_add_scalar(poly_mul(d, t_i), FNeg(evaluate(phi, a))), z_i)

\* the block computing q_e_poly: bbb + ddd
q_e_poly_block(e, v, z_i, b) ==
    LET aaa == poly_add_scalar(poly_scale(v, FNeg(1)), b)
        bbb == poly_mul(e, aaa)
        ccc == FMul(evaluate(z_i, b), FInv(evaluate(z_i, 0)))
        ddd == poly_scale(v, ccc)
    IN  poly_add(bbb, ddd)

\* ------------------------------------------------------------------------
\* state of tests::test_interpolation_poly and of tests::test_e2e
\* ------------------------------------------------------------------------
VARIABLES ipc, h_in, y_in, interp_out

interpVars == <<ipc, h_in, y_in, interp_out>>

VARIABLES epc, e2e_lookup, pp, poly, w_transcript, comm, point, eval, proof,
          r_transcript, v_comm, v_point, v_eval, result

e2eVars == <<epc, e2e_lookup, pp, poly, w_transcript, comm, point, eval, proof,
             r_transcript, v_comm, v_point, v_eval, result>>

\* state of a call of commit_and_write / batch_commit_and_write (pcs.rs)
VARIABLES pcs_pc, pcs_pp, pcs_polys, pcs_commit_ok, pcs_write_fail,
          pcs_before, pcs_transcript, pcs_result

pcsVars == <<pcs_pc, pcs_pp, pcs_polys, pcs_commit_ok, pcs_write_fail,
             pcs_before, pcs_transcript, pcs_result>>

\* ------------------------------------------------------------------------
\* steps of test_prover
\* ------------------------------------------------------------------------
r1Vars == <<t_values_from_lookup, i_values, h_i, t_i_poly, z_i_poly,
            z_i_comm_2, col_values, v_poly>>

r2Vars == <<alpha, beta, z_v_poly, d_poly, e_poly, q_d_poly, r_poly, q_e_poly>>

inVars == <<table, lookup, param, runs, first_run>>

\* commit phi(X) = ifft(lookup) and write it
CommitPhi ==
    /\ pc = "start"
    /\ phi_poly' = ifft(lookup)
    /\ transcript' = commit_and_write(param, phi_poly', transcript).transcript
    /\ pc' = "extract"
    /\ UNCHANGED <<failure, inVars, r1Vars, r2Vars>>
    /\ UNCHANGED <<interpVars, e2eVars, pcsVars>>

\* a lookup value missing from the table: position(..) is None, unwrap panics
ExtractPanic ==
    /\ pc = "extract"
    /\ \E i \in 1 .. Len(lookup) : position(table, lookup[i]) = -1
    /\ pc' = "panicked"
    /\ failure' = "unwrap on None"
    /\ UNCHANGED <<inVars, transcript, phi_poly, r1Vars, r2Vars>>
    /\ UNCHANGED <<interpVars, e2eVars, pcsVars>>

\* deduplicate into a HashSet, locate its elements in the table, build H_I
Extract ==
    /\ pc = "extract"
    /\ \A i \in 1 .. Len(lookup) : position(table, lookup[i]) # -1
    /\ \E order \in HashSetOrders(lookup) :
          /\ t_values_from_lookup' = order
          /\ i_values' = index_values(order, table)
          /\ h_i' = h_i_values(i_values', Len(lookup))
    /\ pc' = "interp"
    /\ UNCHANGED <<failure, inVars, transcript, phi_poly, t_i_poly, z_i_poly,
                   z_i_comm_2, col_values, v_poly, r2Vars>>
    /\ UNCHANGED <<interpVars, e2eVars, pcsVars>>

\* lagrange_interp inverts h_i - h_j and unwraps
InterpPanic ==
    /\ pc = "interp"
    /\ lagrange_interp_panics(h_i)
    /\ pc' = "panicked"
    /\ failure' = "unwrap on invert of zero"
    /\ UNCHANGED <<inVars, transcript, phi_poly, r1Vars, r2Vars>>
    /\ UNCHANGED <<interpVars, e2eVars, pcsVars>>

\* t_I = lagrange_interp(h_i, t_values), committed and written
CommitTI ==
    /\ pc = "interp"
    /\ ~lagrange_interp_panics(h_i)
    /\ t_i_poly' = lagrange_interp(h_i, t_values_from_lookup)
    /\ transcript' = commit_and_write(param, t_i_poly', transcript).transcript
    /\ pc' = "z_i"
    /\ UNCHANGED <<failure, inVars, phi_poly, t_values_from_lookup, i_values,
                   h_i, z_i_poly, z_i_comm_2, col_values, v_poly, r2Vars>>
    /\ UNCHANGED <<interpVars, e2eVars, pcsVars>>

\* z_I is committed in G2; the commitment is printed, not written
CommitZI ==
    /\ pc = "z_i"
    /\ z_i_poly' = vanishing(h_i, 1)
    /\ z_i_comm_2' = commit_monomial_g2(param, z_i_poly')
    /\ pc' = "col"
    /\ UNCHANGED <<failure, inVars, transcript, phi_poly, t_values_from_lookup,
                   i_values, h_i, t_i_poly, col_values, v_poly, r2Vars>>
    /\ UNCHANGED <<interpVars, e2eVars, pcsVars>>

\* the col / v loop, then v(X) = ifft(v_values), committed and written
CommitV ==
    /\ pc = "col"
    /\ col_values' = column_values(t_values_from_lookup, lookup)
    /\ v_poly' = ifft(v_values_of(h_i, col_values'))
    /\ transcript' = commit_and_write(param, v_poly', transcript).transcript
    /\ pc' = "round2"
    /\ UNCHANGED <<failure, inVars, phi_poly, t_values_from_lookup, i_values,
                   h_i, t_i_poly, z_i_poly, z_i_comm_2, r2Vars>>
    /\ UNCHANGED <<interpVars, e2eVars, pcsVars>>

\* round 2 up to q_e_poly
Round2 ==
    /\ pc = "round2"
    /\ alpha' = 2
    /\ beta' = 3
    /\ z_v_poly' = monomial(z_v_values(Len(lookup)))
    /\ d_poly' = d_poly_sum(Len(lookup), Len(lookup), col_values, h_i,
                            z_i_poly, z_v_poly', alpha')
    /\ e_poly' = e_poly_sum(Len(lookup), Len(lookup), col_values, h_i,
                            z_i_poly, z_v_poly', beta')
    /\ LET qr == q_d_r_polys(d_poly', t_i_poly, phi_poly, z_i_poly, alpha')
       IN  /\ q_d_poly' = qr.q
           /\ r_poly' = qr.r
    /\ q_e_poly' = q_e_poly_block(e_poly', v_poly, z_i_poly, beta')
    /\ pc' = "commit2"
    /\ UNCHANGED <<failure, inVars, transcript, phi_poly, r1Vars>>
    /\ UNCHANGED <<interpVars, e2eVars, pcsVars>>

\* variant of round2_writes that writes Q_D before R
round2_writes_q_d_first(prm, d, r, q_d, e, q_e, t) ==
    LET t1 == commit_and_write(prm, d, t).transcript
        t2 == commit_and_write(prm, q_d, t1).transcript
        t3 == commit_and_write(prm, r, t2).transcript
        t4 == commit_and_write(prm, e, t3).transcript
    IN  commit_and_write(prm, q_e, t4).transcript

\* commitments to D, R, Q_D, E, Q_E, written one after the other
round2_writes(prm, d, r, q_d, e, q_e, t) ==
    LET t1 == commit_and_write(prm, d, t).transcript
        t2 == commit_and_write(prm, r, t1).transcript
        t3 == commit_and_write(prm, q_d, t2).transcript
        t4 == commit_and_write(prm, e, t3).transcript
    IN  commit_and_write(prm, q_e, t4).transcript

CommitRound2 ==
    /\ pc = "commit2"
    /\ transcript' = round2_writes(param, d_poly, r_poly, q_d_poly, e_poly,
                                   q_e_poly, transcript)
    /\ pc' = "done"
    /\ UNCHANGED <<failure, inVars, phi_poly, r1Vars, r2Vars>>
    /\ UNCHANGED <<interpVars, e2eVars, pcsVars>>

\* the test is run again on the same table, lookup and parameters; what the
\* first run extracted is kept for comparison
Rerun ==
    /\ pc = "done"
    /\ runs < MaxRuns
    /\ runs' = runs + 1
    /\ first_run' = IF first_run = << >>
                    THEN <<[i_values |-> i_values, col_values |-> col_values,
                            t_i_poly |-> t_i_poly, v_poly |-> v_poly]>>
                    ELSE first_run
    /\ pc' = "start"
    /\ failure' = "none"
    /\ transcript' = new_transcript
    /\ phi_poly' = << >>
    /\ t_values_from_lookup' = << >>
    /\ i_values' = << >>
    /\ h_i' = << >>
    /\ t_i_poly' = << >>
    /\ z_i_poly' = << >>
    /\ z_i_comm_2' = 0
    /\ col_values' = << >>
    /\ v_poly' = << >>
    /\ alpha' = 0
    /\ beta' = 0
    /\ z_v_poly' = << >>
    /\ d_poly' = << >>
    /\ e_poly' = << >>
    /\ q_d_poly' = << >>
    /\ r_poly' = << >>
    /\ q_e_poly' = << >>
    /\ UNCHANGED <<table, lookup, param>>
    /\ UNCHANGED <<interpVars, e2eVars, pcsVars>>

\* ------------------------------------------------------------------------
\* tests::test_interpolation_poly: lagrange_interp on given points, values
\* ------------------------------------------------------------------------
MaxPoints == 3

MaxPoint == 4

InterpValues == {0, 4, 9, 16}

InterpInit ==
    /\ ipc = "call"
    /\ \E k \in 1 .. MaxPoints :
          /\ h_in \in SeqsOfLen(1 .. MaxPoint, k)
          /\ y_in \in SeqsOfLen(InterpValues, k)
    /\ interp_out = << >>

InterpIdle ==
    /\ ipc = "idle"
    /\ h_in = << >>
    /\ y_in = << >>
    /\ interp_out = << >>

InterpUnwrapPanic ==
    /\ ipc = "call"
    /\ lagrange_interp_panics(h_in)
    /\ ipc' = "panicked"
    /\ UNCHANGED <<h_in, y_in, interp_out>>
    /\ UNCHANGED <<proverVars, e2eVars, pcsVars>>

InterpReturn ==
    /\ ipc = "call"
    /\ ~lagrange_interp_panics(h_in)
    /\ interp_out' = lagrange_interp(h_in, y_in)
    /\ ipc' = "returned"
    /\ UNCHANGED <<h_in, y_in>>
    /\ UNCHANGED <<proverVars, e2eVars, pcsVars>>

\* ------------------------------------------------------------------------
\* tests::test_e2e and Baloo::round1: commit, open, verify
\* ------------------------------------------------------------------------
MaxE2ELen == 3

E2ELookups == UNION {SeqsOfLen(0 .. MaxVal, n) : n \in 1 .. MaxE2ELen}

E2EInit ==
    /\ epc = "commit"
    /\ e2e_lookup \in E2ELookups
    /\ pp \in Secrets
    /\ poly = << >>
    /\ w_transcript = new_transcript
    /\ comm = 0
    /\ point = 0
    /\ eval = 0
    /\ proof = << >>
    /\ r_transcript = new_transcript
    /\ v_comm = 0
    /\ v_point = 0
    /\ v_eval = 0
    /\ result = "none"

E2EIdle ==
    /\ epc = "idle"
    /\ e2e_lookup = << >>
    /\ pp = 0
    /\ poly = << >>
    /\ w_transcript = new_transcript
    /\ comm = 0
    /\ point = 0
    /\ eval = 0
    /\ proof = << >>
    /\ r_transcript = new_transcript
    /\ v_comm = 0
    /\ v_point = 0
    /\ v_eval = 0
    /\ result = "none"

\* poly = monomial(lookup); comm = commit_and_write(pp, poly, transcript)
PCommitAndWrite ==
    /\ epc = "commit"
    /\ poly' = monomial(e2e_lookup)
    /\ LET cw == commit_and_write(pp, poly', w_transcript)
       IN  /\ comm' = cw.comm
           /\ w_transcript' = cw.transcript
    /\ epc' = "squeeze"
    /\ UNCHANGED <<e2e_lookup, pp, point, eval, proof, r_transcript, v_comm,
                   v_point, v_eval, result>>
    /\ UNCHANGED <<proverVars, interpVars, pcsVars>>

PSqueezePoint ==
    /\ epc = "squeeze"
    /\ LET sq == squeeze_point(w_transcript)
       IN  /\ point' = sq.point
           /\ w_transcript' = sq.transcript
    /\ epc' = "write_eval"
    /\ UNCHANGED <<e2e_lookup, pp, poly, comm, eval, proof, r_transcript,
                   v_comm, v_point, v_eval, result>>
    /\ UNCHANGED <<proverVars, interpVars, pcsVars>>

PWriteEval ==
    /\ epc = "write_eval"
    /\ eval' = evaluate(poly, point)
    /\ w_transcript' = write_field_element(w_transcript, eval')
    /\ epc' = "open"
    /\ UNCHANGED <<e2e_lookup, pp, poly, comm, point, proof, r_transcript,
                   v_comm, v_point, v_eval, result>>
    /\ UNCHANGED <<proverVars, interpVars, pcsVars>>

\* Pcs::open, then transcript.into_proof() and T::from_proof
POpen ==
    /\ epc = "open"
    /\ w_transcript' = open(pp, poly, comm, point, eval, w_transcript)
    /\ proof' = w_transcript'.stream
    /\ r_transcript' = from_proof(proof')
    /\ epc' = "read_commitment"
    /\ UNCHANGED <<e2e_lookup, pp, poly, comm, point, eval, v_comm, v_point,
                   v_eval, result>>
    /\ UNCHANGED <<proverVars, interpVars, pcsVars>>

\* the arguments of Pcs::verify, evaluated left to right
VReadCommitment ==
    /\ epc = "read_commitment"
    /\ LET rd == read_commitment(r_transcript)
       IN  /\ v_comm' = rd.value
           /\ r_transcript' = rd.transcript
    /\ epc' = "v_squeeze"
    /\ UNCHANGED <<e2e_lookup, pp, poly, w_transcript, comm, point, eval,
                   proof, v_point, v_eval, result>>
    /\ UNCHANGED <<proverVars, interpVars, pcsVars>>

\* variant of VSqueezePoint in which the point is squeezed before the
\* commitment has been read
VSqueezePoint_before_read ==
    /\ epc = "v_squeeze"
    /\ v_point' = squeeze_point(from_proof(proof)).point
    /\ r_transcript' = squeeze_point(r_transcript).transcript
    /\ epc' = "read_eval"
    /\ UNCHANGED <<e2e_lookup, pp, poly, w_transcript, comm, point, eval,
                   proof, v_comm, v_eval, result>>
    /\ UNCHANGED <<proverVars, interpVars, pcsVars>>

VSqueezePoint ==
    /\ epc = "v_squeeze"
    /\ LET sq == squeeze_point(r_transcript)
       IN  /\ v_point' = sq.point
           /\ r_transcript' = sq.transcript
    /\ epc' = "read_eval"
    /\ UNCHANGED <<e2e_lookup, pp, poly, w_transcript, comm, point, eval,
                   proof, v_comm, v_eval, result>>
    /\ UNCHANGED <<proverVars, interpVars, pcsVars>>

VReadFieldElement ==
    /\ epc = "read_eval"
    /\ LET rd == read_field_element(r_transcript)
       IN  /\ v_eval' = rd.value
           /\ r_transcript' = rd.transcript
    /\ epc' = "verify"
    /\ UNCHANGED <<e2e_lookup, pp, poly, w_transcript, comm, point, eval,
                   proof, v_comm, v_point, result>>
    /\ UNCHANGED <<proverVars, interpVars, pcsVars>>

VVerify ==
    /\ epc = "verify"
    /\ result' = verify(pp, v_comm, v_point, v_eval, r_transcript)
    /\ r_transcript' = read_commitment(r_transcript).transcript
    /\ epc' = "verified"
    /\ UNCHANGED <<e2e_lookup, pp, poly, w_transcript, comm, point, eval,
                   proof, v_comm, v_point, v_eval>>
    /\ UNCHANGED <<proverVars, interpVars, pcsVars>>

\* ------------------------------------------------------------------------
\* pcs.rs: calls of commit_and_write and batch_commit_and_write
\* ------------------------------------------------------------------------
MaxBatch == 3

PcsPolys == {<<1>>, <<2, 1>>, <<0, 0, 3>>}

PcsInit ==
    /\ pcs_pc = "call"
    /\ pcs_pp \in Secrets
    /\ \E n \in 0 .. MaxBatch : pcs_polys \in SeqsOfLen(PcsPolys, n)
    /\ pcs_commit_ok \in BOOLEAN
    /\ pcs_write_fail \in 0 .. Len(pcs_polys)
    /\ pcs_before \in {new_transcript, write_commitment(new_transcript, 9)}
    /\ pcs_transcript = pcs_before
    /\ pcs_result = [ok |-> FALSE, err |-> "", comms |-> << >>]

PcsIdle ==
    /\ pcs_pc = "idle"
    /\ pcs_pp = 0
    /\ pcs_polys = << >>
    /\ pcs_commit_ok = FALSE
    /\ pcs_write_fail = 0
    /\ pcs_before = new_transcript
    /\ pcs_transcript = new_transcript
    /\ pcs_result = [ok |-> FALSE, err |-> "", comms |-> << >>]

\* commit_and_write on the first polynomial
CallCommitAndWrite ==
    /\ pcs_pc = "call"
    /\ Len(pcs_polys) >= 1
    /\ LET res == commit_and_write_result(pcs_pp, pcs_polys[1], pcs_transcript,
                                          pcs_commit_ok, pcs_write_fail # 1)
       IN  /\ pcs_transcript' = res.transcript
           /\ pcs_result' = [ok |-> res.ok, err |-> res.err, comms |-> res.comms]
    /\ pcs_pc' = "commit_and_write returned"
    /\ UNCHANGED <<pcs_pp, pcs_polys, pcs_commit_ok, pcs_write_fail, pcs_before>>
    /\ UNCHANGED <<proverVars, interpVars, e2eVars>>

\* batch_commit_and_write on all the polynomials
CallBatchCommitAndWrite ==
    /\ pcs_pc = "call"
    /\ LET res == batch_commit_and_write_result(pcs_pp, pcs_polys, pcs_transcript,
                                                pcs_commit_ok, pcs_write_fail)
       IN  /\ pcs_transcript' = res.transcript
           /\ pcs_result' = [ok |-> res.ok, err |-> res.err, comms |-> res.comms]
    /\ pcs_pc' = "batch_commit_and_write returned"
    /\ UNCHANGED <<pcs_pp, pcs_polys, pcs_commit_ok, pcs_write_fail, pcs_before>>
    /\ UNCHANGED <<proverVars, interpVars, e2eVars>>

\* ------------------------------------------------------------------------
\* Specifications
\* ------------------------------------------------------------------------
vars == <<proverVars, interpVars, e2eVars, pcsVars>>

Init == ProverInit /\ InterpIdle /\ E2EIdle /\ PcsIdle

Next ==
    \/ CommitPhi
    \/ ExtractPanic
    \/ Extract
    \/ InterpPanic
    \/ CommitTI
    \/ CommitZI
    \/ CommitV
    \/ Round2
    \/ CommitRound2
    \/ Rerun

Spec == Init /\ [][Next]_vars

InitInterp == ProverIdle /\ InterpInit /\ E2EIdle /\ PcsIdle

NextInterp ==
    \/ InterpUnwrapPanic
    \/ InterpReturn

SpecInterp == InitInterp /\ [][NextInterp]_vars

InitE2E == ProverIdle /\ InterpIdle /\ E2EInit /\ PcsIdle

NextE2E ==
    \/ PCommitAndWrite
    \/ PSqueezePoint
    \/ PWriteEval
    \/ POpen
    \/ VReadCommitment
    \/ VSqueezePoint
    \/ VReadFieldElement
    \/ VVerify

SpecE2E == InitE2E /\ [][NextE2E]_vars

InitPcs == ProverIdle /\ InterpIdle /\ E2EIdle /\ PcsInit

NextPcs ==
    \/ CallCommitAndWrite
    \/ CallBatchCommitAndWrite

SpecPcs == InitPcs /\ [][NextPcs]_vars

\* ------------------------------------------------------------------------
\* Properties
\* ------------------------------------------------------------------------
Distinct(s) == \A i, j \in 1 .. Len(s) : i # j => s[i] # s[j]

Absent == \E i \in 1 .. Len(lookup) : lookup[i] \notin Range(table)

AfterExtract == pc \in {"interp", "z_i", "col", "round2", "commit2", "done"}

AfterRound1 == pc \in {"round2", "commit2", "done"}

AfterRound2 == pc \in {"commit2", "done"}

C2_WitnessErrorBeforeAnyWork ==
    Absent =>
        /\ transcript.stream = << >>
        /\ phi_poly = << >>
        /\ pc = "panicked" => failure = "WitnessError"

C4_Round1Order ==
    AfterRound1 =>
        /\ Len(transcript.stream) >= 4
        /\ SubSeq(transcript.stream, 1, 4)
              = <<commit(param, phi_poly), z_i_comm_2,
                  commit(param, t_i_poly), commit(param, v_poly)>>

\* C5: alpha and beta are squeezed from the transcript as it stands after
\* round 1.
C5_ChallengesSqueezed ==
    pc = "commit2" =>
        LET first  == squeeze_point(transcript)
            second == squeeze_point(first.transcript)
        IN  /\ alpha = first.point
            /\ beta = second.point

\* C6: the verifier reads the commitment, squeezes the point, reads the
\* evaluation and reads the opening in the order the prover wrote them; its
\* point is the prover's point and verify returns Ok.
C6_ReplayInOrder ==
    /\ epc \in {"v_squeeze", "read_eval", "verify", "verified"} => v_comm = comm
    /\ epc \in {"read_eval", "verify", "verified"} => v_point = point
    /\ epc \in {"verify", "verified"} => v_eval = eval
    /\ epc = "verified" =>
          /\ result = "Ok"
          /\ r_transcript.stream = << >>
          /\ r_transcript.state = w_transcript.state

\* a verified proof of a polynomial of degree 2
C6_Witness ==
    /\ epc = "verified"
    /\ result = "Ok"
    /\ Degree(poly) = 2

\* C7: a second run on the same table and lookup vector yields the same I,
\* col, t_I and v as the first.
C7_ExtractionDeterministic ==
    (first_run # << >> /\ AfterRound1) =>
        /\ i_values = first_run[1].i_values
        /\ col_values = first_run[1].col_values
        /\ t_i_poly = first_run[1].t_i_poly
        /\ v_poly = first_run[1].v_poly

\* C8: for pairwise distinct points lagrange_interp returns p with
\* deg p < k and p(h_j) = y_j for all j, every division of the vanishing
\* polynomial by X - h_j is exact, and points {2,3,4} with values {4,9,16}
\* give coefficients [0,0,1] with p(5) = 25.
C8_LagrangeInterp ==
    /\ Distinct(h_in) => ipc # "panicked"
    /\ ipc = "returned" =>
          /\ Degree(interp_out) < Len(h_in)
          /\ \A j \in 1 .. Len(h_in) :
                /\ evaluate(interp_out, h_in[j]) = y_in[j]
                /\ div_rem(vanishing(h_in, 1),
                           monomial(<<FNeg(h_in[j]), 1>>)).r = zero_poly
          /\ (h_in = <<2, 3, 4>> /\ y_in = <<4, 9, 16>>) =>
                /\ interp_out = <<0, 0, 1>>
                /\ evaluate(interp_out, 5) = 25

\* the case of test_interpolation_poly has returned
C8_Witness ==
    /\ ipc = "returned"
    /\ h_in = <<2, 3, 4>>
    /\ y_in = <<4, 9, 16>>

\* X^m - 1
x_m_minus_1(m) == monomial([i \in 1 .. (m + 1) |->
                      IF i = 1 THEN P - 1 ELSE IF i = m + 1 THEN 1 ELSE 0])

\* C9: Q_E is the quotient of E * (beta - v) + v * z_I(beta) / z_I(0) by
\* z_V = X^m - 1, the remainder of that division is zero, and deg Q_E < m.
C9_QuotientQE ==
    AfterRound2 =>
        LET m   == Len(lookup)
            num == poly_add(
                     poly_mul(e_poly, poly_add_scalar(poly_scale(v_poly, P - 1), beta)),
                     poly_scale(v_poly, FMul(evaluate(z_i_poly, beta),
                                             FInv(evaluate(z_i_poly, 0)))))
            qr  == div_rem(num, x_m_minus_1(m))
        IN  /\ qr.r = zero_poly
            /\ q_e_poly = qr.q
            /\ Degree(q_e_poly) < m

\* C10: z_V is X^m - 1, the points nu^i are the m-th roots of unity, every
\* division z_V / (X - nu^i) is exact and mu_i(nu^j) is 1 for i = j and 0
\* otherwise.
C10_VanishingOfV ==
    AfterRound2 =>
        LET m == Len(lookup)
        IN  /\ z_v_poly = x_m_minus_1(m)
            /\ \A i \in 0 .. (m - 1) :
                  /\ FPow(v_root(i, m), m) = 1
                  /\ div_rem(z_v_poly, monomial(<<FNeg(v_root(i, m)), 1>>)).r = zero_poly
                  /\ \A j \in 0 .. (m - 1) :
                        evaluate(mu_poly(i, m, z_v_poly), v_root(j, m))
                            = IF i = j THEN 1 ELSE 0

\* C11: H_I is {w^i : i in I} for a primitive N-th root of unity w, N the
\* table length, so distinct positions of I give distinct elements of H_I
\* and the inversions of h_i - h_j in lagrange_interp never fail.
C11_SubDomainDistinct ==
    /\ AfterExtract =>
          /\ h_i = [j \in 1 .. Len(i_values) |->
                       FPow(root_of_unity(Len(table)), i_values[j])]
          /\ Distinct(h_i)
    /\ pc = "panicked" => failure # "unwrap on invert of zero"

IsPrefix(s, t) == Len(s) <= Len(t) /\ SubSeq(t, 1, Len(s)) = s

\* C12: round 2 appends the commitments to D, R, Q_D, E, Q_E in this order
\* behind the commitments written in round 1, and within a run every step
\* only appends to the transcript, so the round-1 prefix stays as it was.
C12_Round2Order ==
    [][/\ pc' # "start" => IsPrefix(transcript.stream, transcript'.stream)
       /\ pc = "commit2" =>
             /\ transcript.stream = <<commit(param, phi_poly),
                                      commit(param, t_i_poly),
                                      commit(param, v_poly)>>
             /\ transcript'.stream = transcript.stream \o
                    <<commit(param, d_poly), commit(param, r_poly),
                      commit(param, q_d_poly), commit(param, e_poly),
                      commit(param, q_e_poly)>>]_vars

\* round 2 has written five commitments, those to R and Q_D being different
C12_Witness ==
    /\ pc = "done"
    /\ Len(transcript.stream) = 8
    /\ transcript.stream[5] # transcript.stream[6]
    /\ transcript.stream[4] # transcript.stream[5]

\* the commitments to the first n polynomials of the call
FirstComms(n) == [i \in 1 .. n |-> commit(pcs_pp, pcs_polys[i])]

\* C13: when commit (or batch_commit) fails, the call returns that error and
\* the transcript is as before the call; when it succeeds,
\* batch_commit_and_write appends one commitment per polynomial, in their
\* order, up to the first write that fails, and commit_and_write appends the
\* one commitment.
C13_WriteAfterCommit ==
    /\ pcs_pc # "call" =>
          /\ IsPrefix(pcs_before.stream, pcs_transcript.stream)
          /\ ~pcs_commit_ok =>
                /\ pcs_result.ok = FALSE
                /\ pcs_result.err = "commit"
                /\ pcs_transcript = pcs_before
    /\ (pcs_pc = "commit_and_write returned" /\ pcs_commit_ok) =>
          IF pcs_write_fail = 1
          THEN pcs_result.ok = FALSE /\ pcs_result.err = "write"
          ELSE /\ pcs_result.ok
               /\ pcs_result.comms = FirstComms(1)
               /\ pcs_transcript.stream = pcs_before.stream \o FirstComms(1)
    /\ (pcs_pc = "batch_commit_and_write returned" /\ pcs_commit_ok) =>
          IF pcs_write_fail = 0
          THEN /\ pcs_result.ok
               /\ pcs_result.comms = FirstComms(Len(pcs_polys))
               /\ pcs_transcript.stream
                     = pcs_before.stream \o FirstComms(Len(pcs_polys))
          ELSE /\ pcs_result.ok = FALSE
               /\ pcs_result.err = "write"
               /\ pcs_transcript.stream
                     = pcs_before.stream \o FirstComms(pcs_write_fail - 1)

\* a batch of three whose second write failed, behind earlier content
C13_Witness ==
    /\ pcs_pc = "batch_commit_and_write returned"
    /\ pcs_commit_ok
    /\ Len(pcs_polys) = 3
    /\ pcs_write_fail = 2
    /\ Len(pcs_before.stream) = 1
    /\ Len(pcs_transcript.stream) = 2

====
